---- MODULE Spec2Model ----
(***************************************************************************)
(* Model of the TWISTER automation library: the AWG output interlock       *)
(* (WaveformGenerator.enable_output), the instrument error monitor         *)
(* (check_instrument_errors and the do_command / do_query wrappers), and   *)
(* the oscilloscope waveform capture / decode pipeline.                    *)
(***************************************************************************)
EXTENDS Integers, Sequences, FiniteSets, TLC

\* ------------------------------------------------------------------ bounds
\* open enable_output spans per instrument (nested or overlapping)
MaxSpans == 2
\* pending entries of an instrument's error queue
MaxErr == 2
\* length of a raw block handed to the decoders
MaxLen == 5
\* number of sources in a capture request (channels plus functions)
MaxReq == 2

\* ------------------------------------------------------------- vocabulary
PSGs == {1, 2}
Threads == {1, 2}
AwgChannels == 1..4

\* Instrument replies are character sequences, so that the "0," test of the
\* error monitor is computed as the code computes it.
NoError == <<"0", ",", "N", "o">>
ErrUndefHdr == <<"-", "1", "1", "3", ",", "U">>
ErrTen == <<"1", "0", ",", "X">>
Empty == <<>>
ErrorReplies == {ErrUndefHdr, ErrTen, Empty}
AwgErrorReplies == {ErrUndefHdr, Empty}

Min(a, b) == IF a < b THEN a ELSE b

\* str.find(sub, start, end) of Python: lowest 0-based index in s[start:end]
\* at which sub occurs, or -1.
Find(s, sub, start, end) ==
    LET e == Min(end, Len(s))
        hits == {i \in start..(e - Len(sub)) :
                    \A j \in 1..Len(sub) : s[i + j] = sub[j]}
    IN IF hits = {} THEN -1
       ELSE CHOOSE i \in hits : \A k \in hits : i <= k

VARIABLES
    awg_module,   \* which waveformgen_interface module the program imported
    awg_debug,    \* WaveformGenerator.debug
    instance,     \* instance[i]: signalgen_interface.instance<i> is not None
    psg_out,      \* RF output state of signal generator i
    psg_open,     \* open enable_output spans of signal generator i
    awg_out,      \* AWG output state per channel
    awg_open,     \* open enable_output spans of the AWG
    awg_q,        \* AWG error queue (pending replies to :SYSTem:ERRor?)
    scope_debug,  \* Oscilloscope.debug
    scope_q,      \* oscilloscope error queue
    acq,          \* oscilloscope acquisition memory: source -> raw block
    wav_source,   \* oscilloscope :WAVeform:SOURce
    wav_format,   \* oscilloscope :WAVeform:FORMat
    block,        \* raw block under decode
    last,         \* the last call over a transport: what it was, its log, its outcome
    pc,           \* "running", or "exited" once exit() was called
    psg_debug,    \* SignalGenerator.debug
    psg_phase,    \* phase offset of signal generator i, as the instrument holds it
    tpc,          \* position of each thread that runs an AWG enable_output span
    tick          \* parity of the error replies read so far by the threads

vars == <<awg_module, awg_debug, instance, psg_out, psg_open, awg_out, awg_open,
          awg_q, scope_debug, scope_q, acq, wav_source, wav_format, block,
          last, pc, psg_debug, psg_phase, tpc, tick>>

\* --------------------------------------------------------------- transport
\* A session threads one handler's view of an instrument: the instrument's
\* error queue (q0: as it was when the call began), the transport log of the
\* call, the ERROR lines printed, and whether exit() was called (after which
\* nothing more runs).
Session(q) == [q0 |-> q, q |-> q, io |-> <<>>, printed |-> <<>>, exited |-> FALSE]

VisaWrite(s, command) ==
    IF s.exited THEN s
    ELSE [s EXCEPT !.io = Append(@, [op |-> "write", cmd |-> command])]

VisaQuery(s, query) ==
    IF s.exited THEN s
    ELSE [s EXCEPT !.io = Append(@, [op |-> "query", cmd |-> query])]

VisaWriteBinary(s, command) ==
    IF s.exited THEN s
    ELSE [s EXCEPT !.io = Append(@, [op |-> "write_binary", cmd |-> command])]

VisaQueryBinary(s, query) ==
    IF s.exited THEN s
    ELSE [s EXCEPT !.io = Append(@, [op |-> "query_binary", cmd |-> query])]

\* The instrument's answer to an error-queue query: the oldest pending entry,
\* or "no error" when the queue is empty.
ErrorReply(q) == IF q = <<>> THEN NoError ELSE Head(q)
ErrorPop(q) == IF q = <<>> THEN q ELSE Tail(q)


\* ----------------------------------------------------------- error monitor
\* An error monitor that stops at the first reply it reads, whatever it is.
Awg_check_instrument_errors_ReadsOnce(s, command, exit_on_error) ==
    IF s.exited THEN s
    ELSE LET error_string == ErrorReply(s.q)
             s1 == [s EXCEPT !.q = ErrorPop(@),
                             !.io = Append(@, [op |-> "query", cmd |-> ":SYSTem:ERRor?"])]
         IN IF error_string # Empty /\ Find(error_string, <<"0", ",">>, 0, 2) = -1
            THEN [s1 EXCEPT !.printed = Append(@, error_string)]
            ELSE s1

\* WaveformGenerator.check_instrument_errors (both modules have the same body):
\* an empty reply is neither reported nor left: the loop queries again.
RECURSIVE Awg_check_instrument_errors(_, _, _)
Awg_check_instrument_errors(s, command, exit_on_error) ==
    IF s.exited THEN s
    ELSE
    LET error_string == ErrorReply(s.q)
        s1 == [s EXCEPT !.q = ErrorPop(@),
                        !.io = Append(@, [op |-> "query", cmd |-> ":SYSTem:ERRor?"])]
    IN IF error_string # Empty
       THEN IF Find(error_string, <<"0", ",">>, 0, 2) = -1
            THEN LET s2 == [s1 EXCEPT !.printed = Append(@, error_string)]
                 IN IF exit_on_error
                    THEN [s2 EXCEPT !.exited = TRUE]
                    ELSE Awg_check_instrument_errors(s2, command, exit_on_error)
            ELSE s1
       ELSE Awg_check_instrument_errors(s1, command, exit_on_error)

\* Oscilloscope.check_instrument_errors: an empty reply is reported as an
\* error of its own.
RECURSIVE Scope_check_instrument_errors(_, _, _)
Scope_check_instrument_errors(s, command, exit_on_error) ==
    IF s.exited THEN s
    ELSE
    LET error_string == ErrorReply(s.q)
        s1 == [s EXCEPT !.q = ErrorPop(@),
                        !.io = Append(@, [op |-> "query", cmd |-> ":SYSTem:ERRor? STRing"])]
        s2 == [s1 EXCEPT !.printed = Append(@, error_string)]
    IN IF error_string # Empty
       THEN IF Find(error_string, <<"0", ",">>, 0, 2) = -1
            THEN IF exit_on_error
                 THEN [s2 EXCEPT !.exited = TRUE]
                 ELSE Scope_check_instrument_errors(s2, command, exit_on_error)
            ELSE s1
       ELSE IF exit_on_error
            THEN [s2 EXCEPT !.exited = TRUE]
            ELSE Scope_check_instrument_errors(s2, command, exit_on_error)

\* ------------------------------------------------- do_command and do_query
Awg_do_command(s, command) ==
    Awg_check_instrument_errors(VisaWrite(s, command), command, FALSE)

Awg_do_command_ieee_block(s, command) ==
    Awg_check_instrument_errors(VisaWriteBinary(s, command), command, FALSE)

Awg_do_query(s, query) == VisaQuery(s, query)

Awg_do_query_ieee_block(s, query) == VisaQueryBinary(s, query)

Scope_do_command(s, command) ==
    Scope_check_instrument_errors(VisaWrite(s, command), command, TRUE)

Scope_do_query(s, query) ==
    Scope_check_instrument_errors(VisaQuery(s, query), query, TRUE)

Scope_do_query_ieee_block(s, query) ==
    Scope_check_instrument_errors(VisaQueryBinary(s, query), query, FALSE)

Psg_do_command(s, command) == VisaWrite(s, command)

Psg_do_query(s, query) == VisaQuery(s, query)

\* ------------------------------------------------------ the AWG instrument
\* f":OUTPut{channel}:STATe ON" and "... OFF", per channel
OutputOn == [c \in AwgChannels |-> ":OUTPut" \o ToString(c) \o ":STATe ON"]
OutputOff == [c \in AwgChannels |-> ":OUTPut" \o ToString(c) \o ":STATe OFF"]

\* What the instrument does with one written command: an output-state command
\* switches its channel.
AwgReact(out, e) ==
    [c \in AwgChannels |->
        IF e.op = "write" /\ e.cmd = OutputOn[c] THEN TRUE
        ELSE IF e.op = "write" /\ e.cmd = OutputOff[c] THEN FALSE
        ELSE out[c]]

\* What the instrument does with a transport log, entry by entry.
RECURSIVE AwgApply(_, _)
AwgApply(out, io) ==
    IF io = <<>> THEN out ELSE AwgApply(AwgReact(out, Head(io)), Tail(io))

\* ------------------------------------------------------- signal generators
\* SignalGenerator.output_enabled(), as called by the AWG interlock.
Psg_output_enabled(i) == psg_out[i]

\* ------------------------------------------- WaveformGenerator.enable_output
\* The condition under which the twister_api module raises RuntimeError.
InterlockViolated ==
    \/ instance[1] /\ ~Psg_output_enabled(1)
    \/ instance[2] /\ ~Psg_output_enabled(2)

\* Whether this module's enable_output checks the interlock at all: the
\* top-level waveformgen_interface.py only carries the TODO.
ChecksInterlock == awg_module = "twister_api"

\* try: ... yield: output on for channels 1 and 3
EnableBody(s) ==
    LET s1 == Awg_do_command(s, ":OUTPut1:STATe ON")
        s2 == Awg_do_command(s1, ":OUTPut3:STATe ON")
    IN IF awg_debug
       THEN Awg_do_query(Awg_do_query(s2, ":OUTPut1:STATe?"), ":OUTPut3:STATe?")
       ELSE s2

\* finally: output off for channels 1 and 3
DisableBody(s) ==
    LET s1 == Awg_do_command(s, ":OUTPut1:STATe OFF")
        s2 == Awg_do_command(s1, ":OUTPut3:STATe OFF")
    IN IF awg_debug
       THEN Awg_do_query(Awg_do_query(s2, ":OUTPut1:STATe?"), ":OUTPut3:STATe?")
       ELSE s2

\* A try block that switches the outputs on before it looks at the interlock.
TryBlock_EnablesBeforeCheck(s) ==
    [s |-> EnableBody(s), raised |-> ChecksInterlock /\ InterlockViolated]

\* The try block up to the yield: the session after it, and whether it raised.
TryBlock(s) ==
    IF ChecksInterlock /\ InterlockViolated
    THEN [s |-> s, raised |-> TRUE]
    ELSE [s |-> EnableBody(s), raised |-> FALSE]

\* A cleanup written after the yield instead of in a finally clause: an
\* exception thrown in at the yield skips it.
FinallyBlock_SkippedByException(s, how) ==
    IF how \in {"RuntimeError", "Exception"} THEN s ELSE DisableBody(s)

\* The finally clause, which every way out of the generator runs through.
\* how: "raised" (the try block raised before the yield), "normal", "return",
\* "RuntimeError" or "Exception" (thrown into the generator at the yield).
FinallyBlock(s, how) == DisableBody(s)

ExitPaths == {"normal", "return", "RuntimeError", "Exception"}


\* ------------------------------------------------------------ the last call
Call(inst, op, how, pre, outcome, s, ret) ==
    [inst |-> inst, op |-> op, how |-> how, pre |-> pre, outcome |-> outcome,
     q0 |-> s.q0, q |-> s.q, io |-> s.io, printed |-> s.printed, ret |-> ret]

NoCall == Call("none", "none", "none", FALSE, "none", Session(<<>>), <<>>)

\* ------------------------------------------------------------------ Init
ScopeIdle ==
    /\ scope_debug = FALSE
    /\ scope_q = <<>>
    /\ acq = <<>>
    /\ wav_source = "CHANnel1"
    /\ wav_format = "BYTE"

DecodeIdle == block = <<>>

PeakIdle ==
    /\ psg_debug = FALSE
    /\ psg_phase = [i \in PSGs |-> 0]

ThreadIdle ==
    /\ tpc = [t \in Threads |-> "idle"]
    /\ tick = 0

InterlockIdle ==
    /\ awg_module = "twister_api"
    /\ awg_debug = FALSE
    /\ instance = [i \in PSGs |-> FALSE]
    /\ psg_out = [i \in PSGs |-> FALSE]
    /\ psg_open = [i \in PSGs |-> 0]
    /\ awg_out = [c \in AwgChannels |-> FALSE]
    /\ awg_open = 0
    /\ awg_q = <<>>

\* After construction: the AWG was reset (outputs off, error queue drained by
\* the constructor's do_command calls), no output was enabled yet.
Init ==
    /\ awg_module \in {"twister_api", "root"}
    /\ awg_debug \in BOOLEAN
    /\ instance \in [PSGs -> BOOLEAN]
    /\ psg_out = [i \in PSGs |-> FALSE]
    /\ psg_open = [i \in PSGs |-> 0]
    /\ awg_out = [c \in AwgChannels |-> FALSE]
    /\ awg_open = 0
    /\ awg_q = <<>>
    /\ ScopeIdle
    /\ DecodeIdle
    /\ PeakIdle
    /\ ThreadIdle
    /\ last = NoCall
    /\ pc = "running"

\* ------------------------------------------- SignalGenerator.enable_output
\* entry of the context manager: RF output on
PsgEnter(i) ==
    /\ pc = "running"
    /\ instance[i]
    /\ psg_open[i] < MaxSpans
    /\ psg_out' = [psg_out EXCEPT ![i] = TRUE]
    /\ psg_open' = [psg_open EXCEPT ![i] = @ + 1]
    /\ UNCHANGED <<psg_debug, psg_phase, tpc, tick,
                   awg_module, awg_debug, instance, awg_out, awg_open, awg_q,
                   scope_debug, scope_q, acq, wav_source, wav_format, block,
                   last, pc>>

\* exit of the context manager: RF output off, whatever else is on
PsgExit(i) ==
    /\ pc = "running"
    /\ psg_open[i] > 0
    /\ psg_out' = [psg_out EXCEPT ![i] = FALSE]
    /\ psg_open' = [psg_open EXCEPT ![i] = @ - 1]
    /\ UNCHANGED <<psg_debug, psg_phase, tpc, tick,
                   awg_module, awg_debug, instance, awg_out, awg_open, awg_q,
                   scope_debug, scope_q, acq, wav_source, wav_format, block,
                   last, pc>>

\* ------------------------------------------- WaveformGenerator.enable_output
\* __enter__: the generator runs to its yield, or raises out of the try block
\* through except and finally.
AwgEnter ==
    /\ pc = "running"
    /\ awg_open < MaxSpans
    /\ LET t == TryBlock(Session(awg_q))
           s == IF t.raised THEN FinallyBlock(t.s, "raised") ELSE t.s
       IN /\ awg_q' = s.q
          /\ awg_out' = AwgApply(awg_out, s.io)
          /\ awg_open' = IF t.raised THEN awg_open ELSE awg_open + 1
          /\ last' = Call("awg", "awg_enter", "normal", InterlockViolated,
                          IF t.raised THEN "RuntimeError" ELSE "entered", s, <<>>)
    /\ UNCHANGED <<psg_debug, psg_phase, tpc, tick,
                   awg_module, awg_debug, instance, psg_out, psg_open,
                   scope_debug, scope_q, acq, wav_source, wav_format, block, pc>>

\* __exit__: the with block was left by `how`; the generator resumes at the
\* yield (or has the exception thrown in) and runs its finally clause.
AwgExit(how) ==
    /\ pc = "running"
    /\ awg_open > 0
    /\ LET s == FinallyBlock(Session(awg_q), how)
       IN /\ awg_q' = s.q
          /\ awg_out' = AwgApply(awg_out, s.io)
          /\ awg_open' = awg_open - 1
          /\ last' = Call("awg", "awg_exit", how, FALSE,
                          IF how \in {"RuntimeError", "Exception"} THEN how ELSE "left",
                          s, <<>>)
    /\ UNCHANGED <<psg_debug, psg_phase, tpc, tick,
                   awg_module, awg_debug, instance, psg_out, psg_open,
                   scope_debug, scope_q, acq, wav_source, wav_format, block, pc>>

\* The AWG reports a fault: an entry joins its error queue.
AwgFault(e) ==
    /\ pc = "running"
    /\ Len(awg_q) < MaxErr
    /\ awg_q' = Append(awg_q, e)
    /\ UNCHANGED <<psg_debug, psg_phase, tpc, tick,
                   awg_module, awg_debug, instance, psg_out, psg_open, awg_out,
                   awg_open, scope_debug, scope_q, acq, wav_source, wav_format,
                   block, last, pc>>

\* While outputs are being switched, the faults the AWG reports are command
\* errors; lost replies are exercised on the single wrapper calls below.
Next ==
    \/ \E i \in PSGs : PsgEnter(i)
    \/ \E i \in PSGs : PsgExit(i)
    \/ AwgEnter
    \/ \E how \in ExitPaths : AwgExit(how)
    \/ AwgFault(ErrUndefHdr)

Spec == Init /\ [][Next]_vars


\* ------------------------------------------------ transport wrapper calls
\* One call of a do_command / do_query wrapper on one instrument, against
\* whatever its error queue holds.
ScopeCommands == {":DIGitize"}
ScopeQueries == {":WAVeform:POINts?"}
ScopeBlockQueries == {":WAVeform:DATA?"}
AwgCommands == {":INIT:IMM"}
AwgBlockCommands == {":TRACe1:DATA 1,0,"}
AwgQueries == {":FREQuency:RASTer?"}
AwgBlockQueries == {":TRACe1:DATA? 1,0,1"}
PsgCommands == {":PHASe:REFerence"}
PsgQueries == {":PHASe?"}

Outcome(s) == IF s.exited THEN "exit" ELSE "returned"

ScopeCall(op, arg, s) ==
    /\ pc = "running"
    /\ scope_q' = s.q
    /\ pc' = IF s.exited THEN "exited" ELSE pc
    /\ last' = Call("scope", op, arg, FALSE, Outcome(s), s, <<>>)
    /\ UNCHANGED <<psg_debug, psg_phase, tpc, tick,
                   awg_module, awg_debug, instance, psg_out, psg_open, awg_out,
                   awg_open, awg_q, scope_debug, acq, wav_source, wav_format, block>>

AwgCall(op, arg, s) ==
    /\ pc = "running"
    /\ awg_q' = s.q
    /\ awg_out' = AwgApply(awg_out, s.io)
    /\ pc' = IF s.exited THEN "exited" ELSE pc
    /\ last' = Call("awg", op, arg, FALSE, Outcome(s), s, <<>>)
    /\ UNCHANGED <<psg_debug, psg_phase, tpc, tick,
                   awg_module, awg_debug, instance, psg_out, psg_open, awg_open,
                   scope_debug, scope_q, acq, wav_source, wav_format, block>>

PsgCall(op, arg, s) ==
    /\ pc = "running"
    /\ last' = Call("psg", op, arg, FALSE, Outcome(s), s, <<>>)
    /\ UNCHANGED <<psg_debug, psg_phase, tpc, tick,
                   awg_module, awg_debug, instance, psg_out, psg_open, awg_out,
                   awg_open, awg_q, scope_debug, scope_q, acq, wav_source,
                   wav_format, block, pc>>

ScopeDoCommand(c) == ScopeCall("do_command", c, Scope_do_command(Session(scope_q), c))
ScopeDoQuery(c) == ScopeCall("do_query", c, Scope_do_query(Session(scope_q), c))
ScopeDoQueryIeeeBlock(c) ==
    ScopeCall("do_query_ieee_block", c, Scope_do_query_ieee_block(Session(scope_q), c))
AwgDoCommand(c) == AwgCall("do_command", c, Awg_do_command(Session(awg_q), c))
AwgDoCommandIeeeBlock(c) ==
    AwgCall("do_command_ieee_block", c, Awg_do_command_ieee_block(Session(awg_q), c))
AwgDoQuery(c) == AwgCall("do_query", c, Awg_do_query(Session(awg_q), c))
AwgDoQueryIeeeBlock(c) ==
    AwgCall("do_query_ieee_block", c, Awg_do_query_ieee_block(Session(awg_q), c))
PsgDoCommand(c) == PsgCall("do_command", c, Psg_do_command(Session(<<>>), c))
PsgDoQuery(c) == PsgCall("do_query", c, Psg_do_query(Session(<<>>), c))

\* The oscilloscope reports a fault, or its reply to the error query is lost.
ScopeFault(e) ==
    /\ pc = "running"
    /\ Len(scope_q) < MaxErr
    /\ scope_q' = Append(scope_q, e)
    /\ UNCHANGED <<psg_debug, psg_phase, tpc, tick,
                   awg_module, awg_debug, instance, psg_out, psg_open, awg_out,
                   awg_open, awg_q, scope_debug, acq, wav_source, wav_format,
                   block, last, pc>>

MonitorInit ==
    /\ InterlockIdle
    /\ ScopeIdle
    /\ DecodeIdle
    /\ PeakIdle
    /\ ThreadIdle
    /\ last = NoCall
    /\ pc = "running"

MonitorNext ==
    \/ \E e \in ErrorReplies : ScopeFault(e)
    \/ \E e \in AwgErrorReplies : AwgFault(e)
    \/ \E c \in ScopeCommands : ScopeDoCommand(c)
    \/ \E c \in ScopeQueries : ScopeDoQuery(c)
    \/ \E c \in ScopeBlockQueries : ScopeDoQueryIeeeBlock(c)
    \/ \E c \in AwgCommands : AwgDoCommand(c)
    \/ \E c \in AwgBlockCommands : AwgDoCommandIeeeBlock(c)
    \/ \E c \in AwgQueries : AwgDoQuery(c)
    \/ \E c \in AwgBlockQueries : AwgDoQueryIeeeBlock(c)
    \/ \E c \in PsgCommands : PsgDoCommand(c)
    \/ \E c \in PsgQueries : PsgDoQuery(c)

MonitorSpec == MonitorInit /\ [][MonitorNext]_vars

\* ---------------------------------------------------------------- decoders
\* byte values the raw blocks are drawn from: both signs, both extremes
ByteSamples == {0, 1, 127, 128, 255}
Blocks == UNION {[1..n -> ByteSamples] : n \in 0..MaxLen}

\* struct.unpack("%db" % len(waveform), waveform): one signed 8-bit sample
\* per byte.
SignedByte(b) == IF b >= 128 THEN b - 256 ELSE b
BytesDecode(waveform) == [i \in 1..Len(waveform) |-> SignedByte(waveform[i])]

\* A conversion to 16 bits that keeps the value instead of wrapping it.
Int16_NoWrap(x) == x

\* a value as numpy's int16 holds it: wrapped to 16 bits, two's complement
Int16(x) == ((x + 32768) % 65536) - 32768

\* np.take(waveform, np.arange(start, waveform.size, 2)), start 0 or 1
TakeEvery2(waveform, start) ==
    LET n == IF Len(waveform) <= start THEN 0
             ELSE (Len(waveform) - start + 1) \div 2
    IN [i \in 1..n |-> waveform[start + 2 * (i - 1) + 1]]

\* m + l of two one-dimensional arrays under numpy's broadcasting: equal
\* lengths add element by element, a length-1 operand is stretched to the
\* other's length (to nothing, if that is 0), anything else is a ValueError.
BroadcastAdd(m, l) ==
    IF Len(m) = Len(l)
    THEN [ok |-> TRUE, values |-> [i \in 1..Len(m) |-> Int16(m[i] + l[i])]]
    ELSE IF Len(m) = 1
    THEN [ok |-> TRUE, values |-> [i \in 1..Len(l) |-> Int16(m[1] + l[i])]]
    ELSE IF Len(l) = 1
    THEN [ok |-> TRUE, values |-> [i \in 1..Len(m) |-> Int16(m[i] + l[1])]]
    ELSE [ok |-> FALSE, values |-> <<>>]

\* the body of the decode loop of get_waveform_words, for one waveform
WordsDecode(waveform) ==
    LET hi == TakeEvery2(waveform, 0)
        m == [i \in 1..Len(hi) |-> Int16(Int16(hi[i]) * 256)]
        l == TakeEvery2(waveform, 1)
    IN BroadcastAdd(m, l)

DecodeWords ==
    /\ last.op = "none"
    /\ LET r == WordsDecode(block)
       IN last' = Call("decoder", "decode_words", "normal", FALSE,
                       IF r.ok THEN "returned" ELSE "ValueError",
                       Session(<<>>), r.values)
    /\ UNCHANGED <<psg_debug, psg_phase, tpc, tick,
                   awg_module, awg_debug, instance, psg_out, psg_open, awg_out,
                   awg_open, awg_q, scope_debug, scope_q, acq, wav_source,
                   wav_format, block, pc>>

DecodeBytes ==
    /\ last.op = "none"
    /\ last' = Call("decoder", "decode_bytes", "normal", FALSE, "returned",
                    Session(<<>>), BytesDecode(block))
    /\ UNCHANGED <<psg_debug, psg_phase, tpc, tick,
                   awg_module, awg_debug, instance, psg_out, psg_open, awg_out,
                   awg_open, awg_q, scope_debug, scope_q, acq, wav_source,
                   wav_format, block, pc>>

DecodeInit ==
    /\ InterlockIdle
    /\ ScopeIdle
    /\ block \in Blocks
    /\ PeakIdle
    /\ ThreadIdle
    /\ last = NoCall
    /\ pc = "running"

DecodeNext == DecodeWords \/ DecodeBytes

DecodeSpec == DecodeInit /\ [][DecodeNext]_vars

\* -------------------------------------------------------- waveform capture
ChannelNumbers == {1, 3}
FunctionNumbers == {1}
\* f"CHANnel{channel}" and f"FUNCtion{function}"
ChannelName == [n \in ChannelNumbers |-> "CHANnel" \o ToString(n)]
FunctionName == [n \in FunctionNumbers |-> "FUNCtion" \o ToString(n)]
SourceNames == {ChannelName[n] : n \in ChannelNumbers} \cup
               {FunctionName[n] : n \in FunctionNumbers}
SourceCmd == [src \in SourceNames |-> ":WAVeform:SOURce " \o src]

\* what one acquisition holds per source
CaptureBlocks == {<<1, 255>>, <<128>>}

\* An argument of a capture call: None (the default), a list, or a bare int
\* as in the usage text's channels=1.
ArgNone == [kind |-> "None", v |-> <<>>]
ArgInt(n) == [kind |-> "int", v |-> <<n>>]
ArgList(l) == [kind |-> "list", v |-> l]
Lists(S) == UNION {[1..n -> S] : n \in 0..MaxReq}
ChannelArgs == {ArgNone, ArgInt(1)} \cup {ArgList(l) : l \in Lists(ChannelNumbers)}
FunctionArgs == {ArgNone} \cup {ArgList(l) : l \in Lists(FunctionNumbers)}

\* if channels is None: channels = []
Defaulted(arg) == IF arg.kind = "None" THEN ArgList(<<>>) ELSE arg

\* What the oscilloscope does with a written command: a :WAVeform:SOURce
\* command selects the source the next data read answers for.
ScopeSource(cur, command) ==
    IF \E src \in SourceNames : command = SourceCmd[src]
    THEN CHOOSE src \in SourceNames : command = SourceCmd[src]
    ELSE cur

ScopeFormat(cur, command) ==
    IF command = ":WAVeform:FORMat BYTE" THEN "BYTE"
    ELSE IF command = ":WAVeform:FORMat WORD" THEN "WORD"
    ELSE cur

\* The for loops of _get_waveform_raw over one list of sources. c carries the
\* session, the source the oscilloscope has selected and the blocks read so
\* far; iterating a bare int is a TypeError.
RECURSIVE CaptureLoop(_, _, _)
CaptureLoop(c, names, numbers) ==
    IF c.s.exited \/ c.err # "none" \/ numbers = <<>> THEN c
    ELSE LET command == SourceCmd[names[Head(numbers)]]
             s1 == Scope_do_command(c.s, command)
             s2 == IF scope_debug THEN Scope_do_query(s1, ":WAVeform:SOURce?") ELSE s1
             src == ScopeSource(c.src, command)
             s3 == Scope_do_query_ieee_block(s2, ":WAVeform:DATA?")
         IN CaptureLoop([c EXCEPT !.s = s3, !.src = src,
                                  !.data = Append(@, acq[src])],
                        names, Tail(numbers))

CaptureOver(c, names, arg) ==
    IF c.s.exited \/ c.err # "none" THEN c
    ELSE IF arg.kind = "int" THEN [c EXCEPT !.err = "TypeError"]
    ELSE CaptureLoop(c, names, arg.v)

\* Oscilloscope._get_waveform_raw
Get_waveform_raw(c, channels, functions) ==
    LET s1 == IF scope_debug THEN Scope_do_query(c.s, ":WAVeform:POINts?") ELSE c.s
        s2 == Scope_do_command(s1, ":DIGitize")
        c1 == CaptureOver([c EXCEPT !.s = s2], ChannelName, channels)
    IN CaptureOver(c1, FunctionName, functions)

\* the debug print after the decode loop reads the loop variable `values`,
\* which is unbound when there was no waveform to decode
DebugPrintValues(c) ==
    IF scope_debug /\ c.err = "none" /\ ~c.s.exited /\ c.data = <<>>
    THEN [c EXCEPT !.err = "UnboundLocalError"]
    ELSE c

\* Oscilloscope.get_waveform_bytes
Get_waveform_bytes(channels, functions) ==
    LET s1 == Scope_do_command(Session(scope_q), ":WAVeform:FORMat BYTE")
        s2 == IF scope_debug THEN Scope_do_query(s1, ":WAVeform:FORMat?") ELSE s1
        c0 == [s |-> s2, src |-> wav_source, data |-> <<>>, err |-> "none", ret |-> <<>>]
        c1 == Get_waveform_raw(c0, Defaulted(channels), Defaulted(functions))
        processed_data == [i \in 1..Len(c1.data) |-> BytesDecode(c1.data[i])]
    IN DebugPrintValues([c1 EXCEPT !.ret = processed_data])

\* Oscilloscope.get_waveform_words
Get_waveform_words(channels, functions) ==
    LET s1 == Scope_do_command(Session(scope_q), ":WAVeform:FORMat WORD")
        s2 == IF scope_debug THEN Scope_do_query(s1, ":WAVeform:FORMat?") ELSE s1
        c0 == [s |-> s2, src |-> wav_source, data |-> <<>>, err |-> "none", ret |-> <<>>]
        c1 == Get_waveform_raw(c0, Defaulted(channels), Defaulted(functions))
        decoded == [i \in 1..Len(c1.data) |-> WordsDecode(c1.data[i])]
        c2 == IF c1.err = "none" /\ \E i \in 1..Len(decoded) : ~decoded[i].ok
              THEN [c1 EXCEPT !.err = "ValueError"]
              ELSE [c1 EXCEPT !.ret = [i \in 1..Len(decoded) |-> decoded[i].values]]
    IN DebugPrintValues(c2)

CaptureCall(op, channels, functions, c) ==
    /\ pc = "running"
    /\ scope_q' = c.s.q
    /\ wav_source' = c.src
    /\ wav_format' = IF c.s.io = <<>> THEN wav_format
                     ELSE ScopeFormat(wav_format, c.s.io[1].cmd)
    /\ pc' = IF c.s.exited THEN "exited" ELSE pc
    /\ last' = Call("scope", op, [channels |-> channels, functions |-> functions], FALSE,
                    IF c.s.exited THEN "exit"
                    ELSE IF c.err # "none" THEN c.err ELSE "returned",
                    c.s,
                    IF c.s.exited \/ c.err # "none" THEN <<>> ELSE c.ret)
    /\ UNCHANGED <<psg_debug, psg_phase, tpc, tick,
                   awg_module, awg_debug, instance, psg_out, psg_open, awg_out,
                   awg_open, awg_q, scope_debug, acq, block>>

GetWaveformBytes(channels, functions) ==
    CaptureCall("get_waveform_bytes", channels, functions,
                Get_waveform_bytes(channels, functions))

GetWaveformWords(channels, functions) ==
    CaptureCall("get_waveform_words", channels, functions,
                Get_waveform_words(channels, functions))

\* the sources of one request stay within MaxReq
Requests ==
    {r \in ChannelArgs \X FunctionArgs : Len(r[1].v) + Len(r[2].v) <= MaxReq}

CaptureInit ==
    /\ InterlockIdle
    /\ DecodeIdle
    /\ scope_debug \in BOOLEAN
    /\ scope_q = <<>>
    /\ acq \in [SourceNames -> CaptureBlocks]
    /\ wav_source = "CHANnel1"
    /\ wav_format = "BYTE"
    /\ PeakIdle
    /\ ThreadIdle
    /\ last = NoCall
    /\ pc = "running"

CaptureNext ==
    \/ \E e \in ErrorReplies : ScopeFault(e)
    \/ \E r \in Requests : GetWaveformBytes(r[1], r[2])
    \/ \E r \in Requests : GetWaveformWords(r[1], r[2])

CaptureSpec == CaptureInit /\ [][CaptureNext]_vars

\* ------------------------------------------------- twister_utils arithmetic
\* A Python float x is held in fixed point as the integer round(x * Scale);
\* angles are in radians.
Scale == 10000

pi == 31416

Abs(x) == IF x < 0 THEN -x ELSE x

\* n / d rounded to the nearest integer, d > 0
Rnd(n, d) ==
    IF n >= 0 THEN (2 * n + d) \div (2 * d) ELSE -((2 * (-n) + d) \div (2 * d))

\* a * b
Mul(a, b) == Rnd(a * b, Scale)

\* a / b, b # 0
Div(a, b) == IF b > 0 THEN Rnd(a * Scale, b) ELSE Rnd((-a) * Scale, -b)

\* sin on [0, pi/2] by its series
SinSeries(x) ==
    LET x2 == Mul(x, x)
        t3 == Rnd(x * x2, 6 * Scale)
        t5 == Rnd(t3 * x2, 20 * Scale)
        t7 == Rnd(t5 * x2, 42 * Scale)
        t9 == Rnd(t7 * x2, 72 * Scale)
        t11 == Rnd(t9 * x2, 110 * Scale)
    IN Min(Scale, x - t3 + t5 - t7 + t9 - t11)

sin(x) ==
    LET y == x % (2 * pi)
    IN IF y > pi THEN
           (IF y - pi > pi \div 2 THEN -SinSeries(2 * pi - y)
            ELSE -SinSeries(y - pi))
       ELSE IF y > pi \div 2 THEN SinSeries(pi - y)
       ELSE SinSeries(y)

cos(x) == sin(x + pi \div 2)

\* least angle in lo+1..hi whose cosine is at most c (cosine falls on 0..pi)
RECURSIVE AcosSearch(_, _, _)
AcosSearch(lo, hi, c) ==
    IF hi - lo <= 1 THEN hi
    ELSE LET mid == (lo + hi) \div 2
         IN IF cos(mid) <= c THEN AcosSearch(lo, mid, c)
            ELSE AcosSearch(mid, hi, c)

\* acos(c) for -1 <= c <= 1; acos(1) = 0, acos(-1) = pi
acos(c) ==
    IF c = Scale THEN 0 ELSE IF c = -Scale THEN pi ELSE AcosSearch(-1, pi, c)

\* least angle in lo+1..hi whose sine is at least r (sine rises on -pi/2..pi/2)
RECURSIVE AsinSearch(_, _, _)
AsinSearch(lo, hi, r) ==
    IF hi - lo <= 1 THEN hi
    ELSE LET mid == (lo + hi) \div 2
         IN IF sin(mid) >= r THEN AsinSearch(lo, mid, r)
            ELSE AsinSearch(mid, hi, r)

\* asin(r) for -1 <= r <= 1; asin(0) = 0, asin(1) = pi/2
asin(r) ==
    IF r = Scale THEN pi \div 2 ELSE IF r = -Scale THEN -(pi \div 2)
    ELSE AsinSearch(-(pi \div 2) - 1, pi \div 2, r)

\* greatest r in lo..hi-1 with r * r <= n
RECURSIVE SqrtSearch(_, _, _)
SqrtSearch(lo, hi, n) ==
    IF hi - lo <= 1 THEN lo
    ELSE LET mid == (lo + hi) \div 2
         IN IF mid * mid <= n THEN SqrtSearch(mid, hi, n)
            ELSE SqrtSearch(lo, mid, n)

\* sqrt(a**2 + b**2); large operands lose low digits, as a float mantissa does
RECURSIVE Hypot(_, _)
Hypot(a, b) ==
    IF Abs(a) > 30000 \/ Abs(b) > 30000
    THEN 10 * Hypot(Rnd(a, 10), Rnd(b, 10))
    ELSE SqrtSearch(0, 46341, a * a + b * b)

\* --------------------------------------------------- SignalGenerator phase
\* f"{x}" of a float
Format(x) ==
    LET f == Abs(x) % Scale
    IN (IF x < 0 THEN "-" ELSE "") \o ToString(Abs(x) \div Scale) \o "."
       \o (IF f < 10 THEN "000" ELSE IF f < 100 THEN "00"
           ELSE IF f < 1000 THEN "0" ELSE "")
       \o ToString(f)

\* f":PHASe {degree}DEG"
PhaseCommand(degree) == ":PHASe " \o Format(degree) \o "DEG"

\* A generator under adjustment: the transport log of the call (s), and the
\* phase offset the instrument holds, in the unit the command names: degrees.
\* set_phase writes the number it was given in front of "DEG".
Psg_set_phase(k, degree) ==
    IF k.s.exited THEN k
    ELSE LET s1 == Psg_do_command(k.s, PhaseCommand(degree))
         IN [k EXCEPT !.s = IF psg_debug THEN Psg_do_query(s1, ":PHASe?") ELSE s1,
                      !.phase = degree]

\* the angle, in radians, of a phase the instrument holds in degrees
Radians(degree) == Rnd(degree * pi, 180 * Scale)

\* the current phase becomes the zero reference
Psg_set_phase_reference(k) ==
    IF k.s.exited THEN k
    ELSE [k EXCEPT !.s = Psg_do_command(k.s, ":PHASe:REFerence"), !.phase = 0]

\* ------------------------------------------------------- Utils.peak_phase
\* the scope's answer 9.99999E+37: the measurement could not be made
Sentinel == 2000000000

\* Python's list[i] on a list of n elements: the position selected, counted
\* from 1, or 0 where it raises IndexError
ListIndex(n, i) ==
    IF 0 <= i /\ i < n THEN i + 1
    ELSE IF -n <= i /\ i < 0 THEN n + i + 1
    ELSE 0

\* p1 = float(self.scope.do_query(':MEASure:VPP? FUNCtion1')): the query, and
\* the phase the generator holds while the amplitude is read
Measure(k) ==
    LET s1 == Scope_do_query(k.s, ":MEASure:VPP? FUNCtion1")
    IN IF k.s.exited THEN k
       ELSE [k EXCEPT !.s = s1,
                      !.held = IF s1.exited THEN @ ELSE Append(@, k.phase)]

\* a float sin(w) is zero only at w = 0
NonZero(x, w) == IF x = 0 /\ w # 0 THEN 1 ELSE x

Raised(error) == [raised |-> error, value |-> 0]

\* lines 92-99: the fit, and the phase it asks for
PeakFit(p1, p2, p3, diff_step) ==
    IF p2 = 0 THEN Raised("ZeroDivisionError")
    ELSE LET c == Div(p1 + p3, 2 * p2)
    IN IF Abs(c) > Scale THEN Raised("ValueError")
    ELSE IF diff_step = 0 THEN Raised("ZeroDivisionError")
    ELSE LET w == Div(acos(c), diff_step)
             sin_w == NonZero(sin(w), w)
    IN IF sin_w = 0 THEN Raised("ZeroDivisionError")
    ELSE LET A == Hypot(p1, Div(p2 - Mul(p1, cos(w)), sin_w))
    IN IF A = 0 THEN Raised("ZeroDivisionError")
    ELSE IF Abs(Div(p1, A)) > Scale THEN Raised("ValueError")
    ELSE [raised |-> "none", value |-> pi \div 2 - asin(Div(p1, A))]

Saturated == "Error measuring peak, measured signal saturated (adjust channel 1 scale)"

\* A saturated reading that is answered by commanding a phase all the same.
OnSaturated_Corrects(k) == Psg_set_phase(k, pi \div 2)

\* lines 88-89: print the error, return
OnSaturated(k) == [k EXCEPT !.s.printed = Append(@, Saturated)]

\* F(x), with x worked out once
Bind(x, F(_)) == CHOOSE r \in {F(v) : v \in {x}} : TRUE

\* A peak_phase that reads each probe amplitude before it commands the probe
\* phase.
peak_phase_ReadsBeforeProbe(s, psg_to_adjust, diff_step, p) ==
    LET psg == ListIndex(2, psg_to_adjust - 1)
        k0 == [s |-> s, phase |-> IF psg = 0 THEN 0 ELSE psg_phase[psg], held |-> <<>>]
        k1 == Bind(k0, LAMBDA k : Measure(Psg_set_phase_reference(k)))
        k2 == Bind(k1, LAMBDA k : Psg_set_phase(Measure(k), diff_step))
        k3 == Bind(k2, LAMBDA k : Psg_set_phase(Measure(k), 2 * diff_step))
        End(k, raised) == [psg |-> psg, k |-> k, raised |-> raised]
        Fit(k) == Bind(PeakFit(p[1], p[2], p[3], diff_step),
                       LAMBDA fit : IF fit.raised # "none" THEN End(k, fit.raised)
                                    ELSE End(Psg_set_phase(k, fit.value), "none"))
    IN IF psg = 0 THEN End(k0, "IndexError")
       ELSE Bind(k3, LAMBDA k :
                IF k.s.exited THEN End(k, "none")
                ELSE IF Sentinel \in {p[1], p[2], p[3]}
                THEN End(OnSaturated(k), "none")
                ELSE Fit(k))

\* The whole of peak_phase. p: the amplitudes the scope answers with.
\* Result: the generator selected (0: none), the log, the phases held at the
\* three readings, the phase held at the end, how the call ended.
peak_phase(s, psg_to_adjust, diff_step, p) ==
    LET psg == ListIndex(2, psg_to_adjust - 1)
        k0 == [s |-> s, phase |-> IF psg = 0 THEN 0 ELSE psg_phase[psg], held |-> <<>>]
        k1 == Bind(k0, LAMBDA k : Measure(Psg_set_phase_reference(k)))
        k2 == Bind(k1, LAMBDA k : Measure(Psg_set_phase(k, diff_step)))
        k3 == Bind(k2, LAMBDA k : Measure(Psg_set_phase(k, 2 * diff_step)))
        End(k, raised) == [psg |-> psg, k |-> k, raised |-> raised]
        Fit(k) == Bind(PeakFit(p[1], p[2], p[3], diff_step),
                       LAMBDA fit : IF fit.raised # "none" THEN End(k, fit.raised)
                                    ELSE End(Psg_set_phase(k, fit.value), "none"))
    IN IF psg = 0 THEN End(k0, "IndexError")
       ELSE Bind(k3, LAMBDA k :
                IF k.s.exited THEN End(k, "none")
                ELSE IF Sentinel \in {p[1], p[2], p[3]}
                THEN End(OnSaturated(k), "none")
                ELSE Fit(k))

\* peak_phase arguments and scope answers under check
PsgArgs == -2..3
PiOver8 == pi \div 8
OneRadian == Scale
Steps == {PiOver8, OneRadian}
Readings == {0, 10000, 15000, Sentinel}

PeakCall(psg_to_adjust, diff_step, p) ==
    \E r \in {peak_phase(Session(scope_q), psg_to_adjust, diff_step, p)} :
       /\ pc = "running"
       /\ scope_q' = r.k.s.q
       /\ pc' = IF r.k.s.exited THEN "exited" ELSE pc
       /\ psg_phase' = IF r.psg = 0 THEN psg_phase
                       ELSE [psg_phase EXCEPT ![r.psg] = r.k.phase]
       /\ last' = Call("utils", "peak_phase",
                       [psg_to_adjust |-> psg_to_adjust, diff_step |-> diff_step, p |-> p],
                       Sentinel \in {p[1], p[2], p[3]},
                       IF r.k.s.exited THEN "exit"
                       ELSE IF r.raised = "none" THEN "returned" ELSE r.raised,
                       r.k.s,
                       [psg |-> r.psg, held |-> r.k.held, phase |-> r.k.phase])
       /\ UNCHANGED <<awg_module, awg_debug, instance, psg_out, psg_open, awg_out,
                      awg_open, awg_q, scope_debug, acq, wav_source, wav_format,
                      block, psg_debug, tpc, tick>>

\* The calls under check: every generator argument with the default step,
\* and the default generator with every step and every triple of answers.
PeakInputs ==
    {[psg_to_adjust |-> a, diff_step |-> PiOver8, p |-> <<0, 10000, 10000>>] :
        a \in PsgArgs}
    \cup {[psg_to_adjust |-> 1, diff_step |-> d, p |-> p] :
              d \in Steps, p \in Readings \X Readings \X Readings}

PeakPhase ==
    \E x \in PeakInputs : PeakCall(x.psg_to_adjust, x.diff_step, x.p)

PeakInit ==
    /\ InterlockIdle
    /\ ScopeIdle
    /\ DecodeIdle
    /\ ThreadIdle
    /\ psg_debug \in BOOLEAN
    /\ psg_phase = [i \in PSGs |-> 0]
    /\ last = NoCall
    /\ pc = "running"

PeakNext ==
    \/ PeakPhase
    \/ ScopeFault(ErrUndefHdr)

PeakSpec == PeakInit /\ [][PeakNext]_vars

\* ------------------------------------------- peak_phase on a known signal
\* The received amplitude is A*sin(w*x + phi), x the phase of the generator.
Amplitude(A, w, phi, x) == Mul(A, sin(Mul(w, x) + phi))

\* signals and steps under check: w*step stays inside (0, pi), phi inside
\* (0, pi/2)
Amplitudes == {10000, 15000, 20000}
Rates == {5000, 10000, 20000}
Phases == {1000, 3000, 5000, 10000}
FitSteps == {PiOver8, 5000, OneRadian}

\* the three probe readings of a signal: at x = 0, step, 2*step
Probe ==
    \E A \in Amplitudes, w \in Rates, phi \in Phases, diff_step \in FitSteps :
        /\ last.op # "probe"
        /\ last' = Call("scope", "probe",
                        [A |-> A, w |-> w, phi |-> phi, diff_step |-> diff_step],
                        FALSE, "returned", Session(<<>>),
                        <<Amplitude(A, w, phi, 0),
                          Amplitude(A, w, phi, diff_step),
                          Amplitude(A, w, phi, 2 * diff_step)>>)
        /\ UNCHANGED <<awg_module, awg_debug, instance, psg_out, psg_open, awg_out,
                       awg_open, awg_q, scope_debug, scope_q, acq, wav_source,
                       wav_format, block, pc, psg_debug, psg_phase, tpc, tick>>

\* lines 92-99 on these readings
Solve ==
    /\ last.op = "probe"
    /\ \E fit \in {PeakFit(last.ret[1], last.ret[2], last.ret[3], last.how.diff_step)} :
          last' = Call("utils", "fit", last.how, FALSE,
                       IF fit.raised = "none" THEN "returned" ELSE fit.raised,
                       Session(<<>>), fit.value)
    /\ UNCHANGED <<awg_module, awg_debug, instance, psg_out, psg_open, awg_out,
                   awg_open, awg_q, scope_debug, scope_q, acq, wav_source,
                   wav_format, block, pc, psg_debug, psg_phase, tpc, tick>>

FitInit ==
    /\ InterlockIdle
    /\ ScopeIdle
    /\ DecodeIdle
    /\ PeakIdle
    /\ ThreadIdle
    /\ last = NoCall
    /\ pc = "running"

FitNext == Probe \/ Solve

FitSpec == FitInit /\ [][FitNext]_vars

\* ------------------------------------- enable_output, one transfer at a time
\* Two callers share one WaveformGenerator. tpc[t] is caller t's place in
\* enable_output; every write and every error-queue query is one step on the
\* instrument, and nothing in the source keeps the callers apart.
WriteAt == [on1 |-> OutputOn[1], on3 |-> OutputOn[3],
            off1 |-> OutputOff[1], off3 |-> OutputOff[3]]

WritePlaces == {"on1", "on3", "off1", "off3"}

DrainAt == [on1 |-> "on1_drain", on3 |-> "on3_drain",
            off1 |-> "off1_drain", off3 |-> "off3_drain"]

DrainPlaces == {DrainAt[w] : w \in WritePlaces}

\* where the caller goes once check_instrument_errors breaks out of its loop
AfterDrain(place) ==
    CASE place = "on1_drain" -> "on3"
      [] place = "on3_drain" -> (IF awg_debug THEN "on_readback" ELSE "block")
      [] place = "off1_drain" -> "off3"
      [] place = "off3_drain" -> (IF awg_debug THEN "off_readback" ELSE "idle")

\* one pass of the while True loop with exit_on_error=False: whether the loop
\* goes round again after this reply
LoopsAgain(error_string) ==
    IF error_string # Empty
    THEN Find(error_string, <<"0", ",">>, 0, 2) = -1
    ELSE TRUE

\* what the instrument may answer to :SYSTem:ERRor?
DrainReplies == {NoError} \cup AwgErrorReplies

ThreadUnchanged ==
    UNCHANGED <<awg_module, awg_debug, instance, psg_out, psg_open, awg_open,
                awg_q, scope_debug, scope_q, acq, wav_source, wav_format,
                block, last, pc, psg_debug, psg_phase>>

\* enable_output is entered: the interlock check where the module has one; a
\* RuntimeError goes through the except clause to the finally clause
TEnter(t) ==
    /\ tpc[t] = "idle"
    /\ tpc' = [tpc EXCEPT ![t] = IF ChecksInterlock /\ InterlockViolated
                                 THEN "off1" ELSE "on1"]
    /\ UNCHANGED <<awg_out, tick>>
    /\ ThreadUnchanged

\* self.visa.write of do_command
TWrite(t) ==
    /\ tpc[t] \in WritePlaces
    /\ awg_out' = AwgReact(awg_out, [op |-> "write", cmd |-> WriteAt[tpc[t]]])
    /\ tpc' = [tpc EXCEPT ![t] = DrainAt[tpc[t]]]
    /\ UNCHANGED tick
    /\ ThreadUnchanged

\* one :SYSTem:ERRor? query of check_instrument_errors and its reply
TDrain(t, error_string) ==
    /\ tpc[t] \in DrainPlaces
    /\ IF LoopsAgain(error_string)
       THEN tick' = 1 - tick /\ UNCHANGED tpc
       ELSE tpc' = [tpc EXCEPT ![t] = AfterDrain(tpc[t])] /\ UNCHANGED tick
    /\ UNCHANGED awg_out
    /\ ThreadUnchanged

TDrainAny(t) == \E error_string \in DrainReplies : TDrain(t, error_string)

\* if self.debug: the two :OUTPut<n>:STATe? read-backs
TReadback(t) ==
    /\ tpc[t] \in {"on_readback", "off_readback"}
    /\ tpc' = [tpc EXCEPT ![t] = IF tpc[t] = "on_readback" THEN "block" ELSE "idle"]
    /\ UNCHANGED <<awg_out, tick>>
    /\ ThreadUnchanged

\* the with block ends, normally or by an exception: the finally clause runs
TLeave(t) ==
    /\ tpc[t] = "block"
    /\ tpc' = [tpc EXCEPT ![t] = "off1"]
    /\ UNCHANGED <<awg_out, tick>>
    /\ ThreadUnchanged

ThreadInit ==
    /\ awg_module \in {"twister_api", "root"}
    /\ awg_debug \in BOOLEAN
    /\ instance \in [PSGs -> BOOLEAN]
    /\ psg_out \in {f \in [PSGs -> BOOLEAN] : \A i \in PSGs : f[i] => instance[i]}
    /\ psg_open = [i \in PSGs |-> 0]
    /\ awg_out = [c \in AwgChannels |-> FALSE]
    /\ awg_open = 0
    /\ awg_q = <<>>
    /\ ScopeIdle
    /\ DecodeIdle
    /\ PeakIdle
    /\ ThreadIdle
    /\ last = NoCall
    /\ pc = "running"

ThreadNext ==
    \E t \in Threads :
        \/ TEnter(t)
        \/ TWrite(t)
        \/ TDrainAny(t)
        \/ TReadback(t)
        \/ TLeave(t)

ThreadSpec == ThreadInit /\ [][ThreadNext]_vars

\* A caller inside enable_output keeps running: the scheduler gives every
\* runnable thread its turn, and the with block comes to an end.
ThreadFairness ==
    \A t \in Threads :
        /\ WF_vars(TWrite(t))
        /\ WF_vars(TDrainAny(t))
        /\ WF_vars(TReadback(t))
        /\ WF_vars(TLeave(t))

ThreadLiveSpec == ThreadInit /\ [][ThreadNext]_vars /\ ThreadFairness

\* ================================================================== claims
Writes(io) == SelectSeq(io, LAMBDA e : e.op = "write")
Count(io, command) == Len(SelectSeq(io, LAMBDA e : e.op = "write" /\ e.cmd = command))

\* C1: whenever AWG output channel 1 or 3 is on, the output of every
\* initialized signal generator is on.
C1_AwgOnImpliesLoOn ==
    (awg_out[1] \/ awg_out[3]) => \A i \in PSGs : instance[i] => psg_out[i]

\* C2: enable_output raises the interlock error exactly when an initialized
\* signal generator had its output off at the call; otherwise it does not
\* fail and leaves channels 1 and 3 on.
C2_FailsIffLoOff ==
    last.op = "awg_enter" =>
        /\ (last.outcome = "RuntimeError") <=> last.pre
        /\ ~last.pre => awg_out[1] /\ awg_out[3]

\* C3 as stated: a failed enable_output writes no command at all to the AWG.
C3_NoWriteOnFailure ==
    (last.op = "awg_enter" /\ last.outcome = "RuntimeError") =>
        Writes(last.io) = <<>>

\* C3 as amended: a failed enable_output writes no output-on command; what it
\* writes is the cleanup, output off for channel 1 and then for channel 3,
\* and both channels are off afterwards.
C3_NoOutputOnOnFailure ==
    (last.op = "awg_enter" /\ last.outcome = "RuntimeError") =>
        /\ Writes(last.io) = <<[op |-> "write", cmd |-> OutputOff[1]],
                               [op |-> "write", cmd |-> OutputOff[3]]>>
        /\ ~awg_out[1] /\ ~awg_out[3]

\* a failed entry while another span of the AWG was open
C3_Witness ==
    /\ last.op = "awg_enter"
    /\ last.outcome = "RuntimeError"
    /\ awg_open > 0

\* C4: leaving an enable_output block, by normal completion, early return or
\* an exception raised in the block, runs the disable step exactly once
\* (one output-off command for channel 1 and one for channel 3, no output-on
\* command), and both channels are off afterwards.
C4_DisableOnceOnEveryExit ==
    last.op = "awg_exit" =>
        /\ Count(last.io, OutputOff[1]) = 1
        /\ Count(last.io, OutputOff[3]) = 1
        /\ Len(Writes(last.io)) = 2
        /\ ~awg_out[1] /\ ~awg_out[3]

\* the block was left by an exception, with a fault pending on the AWG
C4_Witness ==
    /\ last.op = "awg_exit"
    /\ last.how = "Exception"
    /\ last.printed # <<>>

ErrQueries(io) ==
    Len(SelectSeq(io, LAMBDA e :
        e.op = "query" /\ e.cmd \in {":SYSTem:ERRor?", ":SYSTem:ERRor? STRing"}))

IsCheckedCall ==
    \/ last.inst = "scope" /\ last.op \in {"do_command", "do_query", "do_query_ieee_block"}
    \/ last.inst = "awg" /\ last.op \in {"do_command", "do_command_ieee_block"}

ExitsOnError == last.inst = "scope" /\ last.op \in {"do_command", "do_query"}

\* C5 as stated: whenever a checked call finds a pending entry at the head of
\* the error queue, the monitor fails after reading that one entry, for
\* every instrument and every caller.
C5_FailFastEverywhere ==
    (IsCheckedCall /\ last.q0 # <<>>) =>
        /\ last.outcome = "exit"
        /\ ErrQueries(last.io) = 1

\* C5 as amended: the monitor fails fast only where exit_on_error is true
\* (Oscilloscope.do_command and do_query): there it ends the program after
\* exactly one error query. Where the caller passes exit_on_error=False
\* (Oscilloscope.do_query_ieee_block, every WaveformGenerator caller) it
\* keeps querying until the "no error" reply, one query per pending entry
\* plus one, and returns normally with the queue empty.
C5_FailFastOnlyWhereExitOnError ==
    (IsCheckedCall /\ last.q0 # <<>>) =>
        IF ExitsOnError
        THEN /\ last.outcome = "exit"
             /\ pc = "exited"
             /\ ErrQueries(last.io) = 1
             /\ last.printed = <<Head(last.q0)>>
        ELSE /\ last.outcome = "returned"
             /\ ErrQueries(last.io) = Len(last.q0) + 1
             /\ last.q = <<>>

\* an AWG command drained two pending entries and returned
C5_Witness ==
    /\ last.inst = "awg"
    /\ last.op = "do_command"
    /\ Len(last.q0) = 2
    /\ last.outcome = "returned"
    /\ Len(last.printed) = 2

\* C6: every command and every string query sent to an instrument is
\* followed, before the call returns, by an error-queue query of that
\* instrument (binary block reads may skip it).
C6_EveryCallChecked ==
    last.op \in {"do_command", "do_command_ieee_block", "do_query"} =>
        /\ ErrQueries(last.io) >= 1
        /\ last.io[1].op \in {"write", "write_binary", "query"}

\* C7: word decoding fails with a decode error for every odd-length block.
C7_OddLengthFails ==
    (last.op = "decode_words" /\ Len(block) % 2 = 1) => last.outcome = "ValueError"

\* C8: for an even-length block of 2n bytes, word decoding returns n samples,
\* sample i being the 16-bit two's-complement value of the big-endian pair
\* (b[2i], b[2i+1]).
C8_EvenLengthBigEndianInt16 ==
    (last.op = "decode_words" /\ Len(block) % 2 = 0) =>
        /\ last.outcome = "returned"
        /\ Len(last.ret) = Len(block) \div 2
        /\ \A i \in 1..Len(last.ret) :
              /\ last.ret[i] \in -32768..32767
              /\ last.ret[i] =
                   ((block[2 * i - 1] * 256 + block[2 * i] + 32768) % 65536) - 32768

\* a decoded block of two words whose first high byte has its top bit set
C8_Witness ==
    /\ last.op = "decode_words"
    /\ Len(block) = 4
    /\ block[1] >= 128
    /\ Len(last.ret) = 2
    /\ last.ret[1] < 0

\* the sources a request names, channels first, each list in its own order
Requested(channels, functions) ==
    [i \in 1..Len(channels.v) |-> ChannelName[channels.v[i]]] \o
    [i \in 1..Len(functions.v) |-> FunctionName[functions.v[i]]]

\* the source the oscilloscope has selected at each binary read of a log
RECURSIVE SelectedAtReads(_, _)
SelectedAtReads(io, cur) ==
    IF io = <<>> THEN <<>>
    ELSE LET e == Head(io)
         IN IF e.op = "query_binary"
            THEN <<cur>> \o SelectedAtReads(Tail(io), cur)
            ELSE IF e.op = "write"
            THEN SelectedAtReads(Tail(io), ScopeSource(cur, e.cmd))
            ELSE SelectedAtReads(Tail(io), cur)

\* positions in a log of the writes of one command, and of the binary reads
WritesOf(io, command) == {k \in 1..Len(io) : io[k].op = "write" /\ io[k].cmd = command}
ReadsOf(io) == {k \in 1..Len(io) : io[k].op = "query_binary"}

\* C9: a capture of channels [c1..cm] and functions [f1..fk] on an instrument
\* with no fault pending returns m+k decoded sequences in request order, the
\* i-th being the capture of the i-th requested source, that source being
\* the one selected at the i-th data read; one digitize command precedes all
\* data reads.
C9_OneSequencePerSourceInOrder ==
    (/\ last.op = "get_waveform_bytes"
     /\ last.q0 = <<>>
     /\ last.how.channels.kind # "int"
     /\ last.how.functions.kind # "int") =>
        LET req == Requested(last.how.channels, last.how.functions)
        IN /\ last.outcome = "returned"
           /\ Len(last.ret) = Len(req)
           /\ \A i \in 1..Len(req) : last.ret[i] = BytesDecode(acq[req[i]])
           /\ SelectedAtReads(last.io, "unselected") = req
           /\ Cardinality(WritesOf(last.io, ":DIGitize")) = 1
           /\ \A d \in WritesOf(last.io, ":DIGitize") : \A r \in ReadsOf(last.io) : d < r

\* C10: get_waveform_bytes() and get_waveform_bytes(channels=1) both select
\* channel 1, read one data block and return its decoded samples.
C10_NoArgumentMeansChannel1 ==
    (/\ last.op = "get_waveform_bytes"
     /\ last.q0 = <<>>
     /\ last.how.functions = ArgNone
     /\ last.how.channels \in {ArgNone, ArgInt(1)}) =>
        /\ last.outcome = "returned"
        /\ SelectedAtReads(last.io, "unselected") = <<"CHANnel1">>
        /\ last.ret = <<BytesDecode(acq["CHANnel1"])>>

\* ------------------------------------------------------------- peak_phase
IsPeak == last.inst = "utils" /\ last.op = "peak_phase"

\* the commands written during a call, in order
Commands(io) == [i \in 1..Len(Writes(io)) |-> Writes(io)[i].cmd]

\* the call took its three readings: a generator was selected and no reading
\* ended the program
ReadingsTaken == IsPeak /\ last.ret.psg # 0 /\ last.outcome # "exit"

IllConditioned ==
    LET p == last.how.p
    IN p[2] = 0 \/ p[1] + p[3] = 2 * p[2]

\* C12: when p2 is 0 or sin(w) is 0, peak_phase fails with the dedicated
\* ill-conditioned-fit error, never with a generic arithmetic or domain error
\* and never by returning; no corrective phase command is sent.
C12_IllConditionedFitError ==
    (ReadingsTaken /\ ~last.pre /\ IllConditioned) =>
        /\ last.outcome \notin {"returned", "ZeroDivisionError", "ValueError"}
        /\ Len(Writes(last.io)) = 3

\* a run that went through: three readings, none saturated, no exception
Success == ReadingsTaken /\ ~last.pre /\ last.outcome = "returned"

ReadAmplitude == ":MEASure:VPP? FUNCtion1"

\* the commands written and the amplitudes read during a call, in order
Interactions(io) ==
    LET sel == SelectSeq(io, LAMBDA e : e.op = "write" \/ e.cmd = ReadAmplitude)
    IN [i \in 1..Len(sel) |-> sel[i].cmd]

\* C13: a successful peak_phase sets the phase reference, reads p1, sets the
\* phase to step, reads p2, sets the phase to 2*step, reads p3 and sets the
\* corrective phase, in this order; the corrective set-phase is the last
\* command and is issued once.
C13_ProbeOrder ==
    Success =>
        LET d == last.how.diff_step
            p == last.how.p
        IN Interactions(last.io) =
               <<":PHASe:REFerence", ReadAmplitude,
                 PhaseCommand(d), ReadAmplitude,
                 PhaseCommand(2 * d), ReadAmplitude,
                 PhaseCommand(PeakFit(p[1], p[2], p[3], d).value)>>

C13_Witness ==
    /\ Success
    /\ psg_debug
    /\ last.how.p = <<0, 10000, 10000>>
    /\ Len(Writes(last.io)) = 4

\* numeric tolerance of the recovered phase, in units of 1/Scale radian
Tolerance == 100

\* C14: for amplitudes generated from a known A, w, phi at x = 0, step,
\* 2*step, the solve of peak_phase recovers the corrective phase pi/2 - phi
\* within tolerance, for any step.
C14_RecoversPeakForAnyStep ==
    (last.inst = "utils" /\ last.op = "fit") =>
        /\ last.outcome = "returned"
        /\ Abs(last.ret - (pi \div 2 - last.how.phi)) <= Tolerance

\* C17: peak_phase rejects every psg_to_adjust outside {1, 2} with IndexError
\* before any command or query is sent; only 1 selects generator 1 and only
\* 2 selects generator 2.
C17_OnlyOneAndTwoSelect ==
    IsPeak =>
        /\ last.how.psg_to_adjust \notin {1, 2} =>
               /\ last.outcome = "IndexError"
               /\ last.io = <<>>
        /\ last.how.psg_to_adjust \in {1, 2} =>
               last.ret.psg = last.how.psg_to_adjust

\* C18: the phase values peak_phase passes (in radians) reach the instrument
\* as the same angles: while the amplitude of probe k is read, k = 0, 1, 2,
\* the generator's phase offset is k*step radians.
C18_ProbePhaseIsKTimesStep ==
    (ReadingsTaken /\ last.how.psg_to_adjust \in {1, 2}) =>
        \A j \in 1..3 : Radians(last.ret.held[j]) = (j - 1) * last.how.diff_step

\* C15: teardown is never blocked: once a caller reaches the exit path of
\* enable_output, the path comes to its end with both output-off commands
\* written, whatever the error queue answers after each command.
C15_TeardownTerminates ==
    \A t \in Threads : (tpc[t] = "off1") ~> (tpc[t] = "idle")

\* C16: overlapping enable->use->disable spans are serialized: while a
\* caller's protected block is running, channels 1 and 3 are ON.
C16_BlockKeepsOutputsOn ==
    \A t \in Threads : tpc[t] = "block" => awg_out[1] /\ awg_out[3]

====
